---- MODULE Spec2Model ----
(***************************************************************************)
(* Model of folly's fatal signal handler                                   *)
(* (folly/experimental/symbolizer/SignalHandler.cpp) and of the guard-page *)
(* stack allocator (GuardPageAllocator.cpp, second half of the same source *)
(* file).                                                                  *)
(*                                                                         *)
(* The signal handler part is a state machine over threads, each with a    *)
(* stack of handler invocations (a nested invocation interrupts the one    *)
(* below it); every step of signalHandler / innerSignalHandler that reads  *)
(* or writes shared state is one action.  The kernel's part (delivery of a *)
(* signal, blocking of a signal while its handler runs, the action taken   *)
(* for a disposition) is modelled as far as the handler relies on it.      *)
(***************************************************************************)
EXTENDS Integers, Sequences, FiniteSets, TLC

(***************************************************************************)
(* Bounds of the model.                                                    *)
(***************************************************************************)
NThreads == 2
MaxFaults == 3
MaxCallbacks == 2
NInstallers == 2
MaxInstallCalls == 2
NWorkers == 2
MaxExcess == 2
MaxConcurrentCalls == 4
MaxSequentialCalls == 104
MaxGiveBacks == 1
MaxHeld == 2
MaxDeallocates == 3
MaxWaitFaults == 2
NRegCallers == 2
MaxRegFaults == 1
NUsers == 2
MaxUserHeld == 2
MaxSharedCalls == 3

Threads == 1..NThreads
Installers == 1..NInstallers
Callbacks == {"cbA", "cbB"}
RegCallers == 1..NRegCallers
Users == 1..NUsers

(***************************************************************************)
(* Signal numbers of the fixed table (Linux values) and the table itself.  *)
(***************************************************************************)
SIGSEGV == 11
SIGILL == 4
SIGFPE == 8
SIGABRT == 6
SIGBUS == 7
SIGTERM == 15

kFatalSignals ==
  << [number |-> SIGSEGV, name |-> "SIGSEGV"],
     [number |-> SIGILL,  name |-> "SIGILL"],
     [number |-> SIGFPE,  name |-> "SIGFPE"],
     [number |-> SIGABRT, name |-> "SIGABRT"],
     [number |-> SIGBUS,  name |-> "SIGBUS"],
     [number |-> SIGTERM, name |-> "SIGTERM"] >>

TableSignals == {kFatalSignals[i].number : i \in 1..Len(kFatalSignals)}

\* A signal number outside the table (SIGTRAP), for callPreviousSignalHandler's
\* fallback branch.
SIGTRAP == 5
AllSignals == TableSignals \cup {SIGTRAP}

\* The signals the environment raises in the explored runs.
FaultSignals == {SIGSEGV, SIGABRT, SIGTERM}

\* pthread_t value meaning "no thread in the signal handler".
kInvalidThreadId == 0

VARIABLES
  installed_,                \* FatalSignalCallbackRegistry::installed_
  handlers_,                 \* FatalSignalCallbackRegistry::handlers_
  mutex_,                    \* FatalSignalCallbackRegistry::mutex_: its owner, or 0
  regPc, regCb,              \* callers of add / markInstalled: position, argument
  atFreeze,                  \* handlers_ as markInstalled found it
  fatal,                     \* "none", or the CHECK that failed (process aborts)
  gAlreadyInstalled,         \* std::atomic<bool> gAlreadyInstalled
  oldAction,                 \* kFatalSignals[i].oldAction, by signal number
  saves,                     \* number of writes of oldAction, by signal number
  disposition,               \* the kernel's disposition of each signal
  origDisp,                  \* the dispositions before any install (never changes)
  instPc, instIdx,           \* callers of installFatalSignalHandler
  installCalls,              \* calls of installFatalSignalHandler made so far
  gSignalThread,             \* std::atomic<pthread_t> gSignalThread
  gInRecursiveSignalHandler, \* std::atomic<bool> gInRecursiveSignalHandler
  stack,                     \* per thread: the handler invocations, outermost first
  faults,                    \* signals delivered to the handler so far
  buffer,                    \* gPrinter's buffer (text not yet written)
  out,                       \* what has been written to STDERR_FILENO
  synced,                    \* how much of out the last fsync covered
  terminated,                \* how the process ended, via = "none" while it runs
  inUse_,                    \* CacheManager::inUse_
  lock_,                     \* CacheManager::lock_: the worker holding it, or 0
  entries,                   \* StackCacheEntry objects alive (outstanding handles)
  regions,                   \* StackCache backing regions mapped
  wpc, wtmp,                 \* users of the manager: position, value of inUse_ read
  wret,                      \* what the last getStackCache returned
  mgrCalls,                  \* calls of the manager started so far
  mgrFatal,                  \* "none", or the assert of the manager that failed
  storage_,                  \* StackCache::storage_
  allocSize_,                \* StackCache::allocSize_
  freeList_,                 \* StackCache::freeList_
  reqSize,                   \* the stack size the cache's user asks for
  borrowed,                  \* the pointers the user holds
  giveBacks,                 \* calls of StackCache::giveBack made so far
  lastOp,                    \* the last call on the cache and what it returned
  cacheFatal,                \* "none", or the assert of the cache that failed
  ndebug,                    \* the build defines NDEBUG: assert compiles to nothing
  protNone,                  \* the pages made PROT_NONE, by their first address
  useGuardPages_,            \* GuardPageAllocator::useGuardPages_
  stackCache_,               \* GuardPageAllocator::stackCache_ is not null
  handles,                   \* pool handles the allocator obtained so far
  held,                      \* the regions the allocator's user holds
  fallbackLive,              \* regions of the fallback allocator not deallocated
  apc, asize,                \* the allocate call in progress: position, size
  alast,                     \* the last allocate or deallocate that returned
  cacheLock_,                \* StackCache::lock_: the thread holding it, or 0
  upc, utmp,                 \* threads using one cache: position, local p / limit
  uheld                      \* threads using one cache: the pointers each holds

sigVars == << installed_, handlers_, mutex_, regPc, regCb, atFreeze, fatal, gAlreadyInstalled, oldAction, saves,
              disposition, origDisp, instPc, instIdx, installCalls,
              gSignalThread, gInRecursiveSignalHandler, stack, faults,
              buffer, out, synced, terminated >>

mgrVars == << inUse_, lock_, entries, regions, wpc, wtmp, wret, mgrCalls,
              mgrFatal >>

userVars == << cacheLock_, upc, utmp, uheld >>

allocVars == << useGuardPages_, stackCache_, handles, held, fallbackLive, apc,
               asize, alast, userVars >>

cacheVars == << storage_, allocSize_, freeList_, reqSize, borrowed, giveBacks,
                lastOp, cacheFatal, ndebug, protNone, allocVars >>

vars == << sigVars, mgrVars, cacheVars >>

regLockVars == << mutex_, regPc, regCb, atFreeze >>
regVars == << installed_, handlers_, regLockVars >>
instVars == << gAlreadyInstalled, oldAction, saves, instPc, instIdx, installCalls >>
dumpVars == << gSignalThread, gInRecursiveSignalHandler, stack, faults >>
outVars == << buffer, out, synced >>

Running == terminated.via = "none" /\ fatal = "none"

(***************************************************************************)
(* FatalSignalCallbackRegistry.  add and markInstalled hold mutex_ for     *)
(* their whole body, so each is one atomic step.  A failed CHECK aborts    *)
(* the process: fatal records which one.                                   *)
(***************************************************************************)
\* (add without its CHECK)
add_NoCheck(cb) ==
  /\ Running
  /\ Len(handlers_) < MaxCallbacks
  /\ handlers_' = Append(handlers_, cb)
  /\ UNCHANGED regLockVars
  /\ UNCHANGED << installed_, fatal, instVars, disposition, origDisp, dumpVars,
                  outVars, terminated >>
  /\ UNCHANGED << mgrVars, cacheVars >>

add(cb) ==
  /\ Running
  /\ installed_ \/ Len(handlers_) < MaxCallbacks
  /\ IF installed_
       THEN /\ fatal' = "add_after_install"
            /\ UNCHANGED handlers_
       ELSE /\ handlers_' = Append(handlers_, cb)
            /\ UNCHANGED fatal
  /\ UNCHANGED regLockVars
  /\ UNCHANGED << installed_, instVars, disposition, origDisp, dumpVars,
                  outVars, terminated >>
  /\ UNCHANGED << mgrVars, cacheVars >>

markInstalled ==
  /\ Running
  /\ IF installed_
       THEN fatal' = "markInstalled_twice"
       ELSE UNCHANGED fatal
  /\ installed_' = TRUE
  /\ UNCHANGED regLockVars
  /\ UNCHANGED << handlers_, instVars, disposition, origDisp, dumpVars,
                  outVars, terminated >>
  /\ UNCHANGED << mgrVars, cacheVars >>

addFatalSignalCallback(cb) == add(cb)

installFatalSignalCallbacks == markInstalled

(***************************************************************************)
(* installFatalSignalHandler.  The exchange on gAlreadyInstalled is one    *)
(* step; each sigaction call of the loop is one step (the kernel sets the  *)
(* new action and hands back the old one atomically).                      *)
(***************************************************************************)
IsTableSignal(signum) == \E i \in 1..Len(kFatalSignals) : kFatalSignals[i].number = signum

\* (install without the gAlreadyInstalled test)
installFatalSignalHandler_Again(c) ==
  /\ Running
  /\ instPc[c] = "idle"
  /\ installCalls < MaxInstallCalls
  /\ installCalls' = installCalls + 1
  /\ gAlreadyInstalled' = TRUE
  /\ instPc' = [instPc EXCEPT ![c] = "loop"]
  /\ instIdx' = [instIdx EXCEPT ![c] = 1]
  /\ UNCHANGED << regVars, fatal, oldAction, saves, disposition, origDisp,
                  dumpVars, outVars, terminated >>
  /\ UNCHANGED << mgrVars, cacheVars >>

installFatalSignalHandler(c) ==
  /\ Running
  /\ instPc[c] = "idle"
  /\ installCalls < MaxInstallCalls
  /\ installCalls' = installCalls + 1
  /\ gAlreadyInstalled' = TRUE
  /\ IF gAlreadyInstalled
       THEN UNCHANGED << instPc, instIdx >>
       ELSE /\ instPc' = [instPc EXCEPT ![c] = "loop"]
            /\ instIdx' = [instIdx EXCEPT ![c] = 1]
  /\ UNCHANGED << regVars, fatal, oldAction, saves, disposition, origDisp,
                  dumpVars, outVars, terminated >>
  /\ UNCHANGED << mgrVars, cacheVars >>

InstallSigaction(c) ==
  /\ Running
  /\ instPc[c] = "loop"
  /\ LET p == kFatalSignals[instIdx[c]] IN
       /\ oldAction' = [oldAction EXCEPT ![p.number] = disposition[p.number]]
       /\ saves' = [saves EXCEPT ![p.number] = @ + 1]
       /\ disposition' = [disposition EXCEPT ![p.number] = "CRASH"]
  /\ IF instIdx[c] = Len(kFatalSignals)
       THEN /\ instPc' = [instPc EXCEPT ![c] = "idle"]
            /\ instIdx' = [instIdx EXCEPT ![c] = 0]
       ELSE /\ instIdx' = [instIdx EXCEPT ![c] = @ + 1]
            /\ UNCHANGED instPc
  /\ UNCHANGED << regVars, fatal, gAlreadyInstalled, installCalls, origDisp,
                  dumpVars, outVars, terminated >>
  /\ UNCHANGED << mgrVars, cacheVars >>

(***************************************************************************)
(* gPrinter (a buffered writer on STDERR_FILENO) and flush().  A piece of  *)
(* report text is a token: who printed it, for which signal, which part.   *)
(***************************************************************************)
Token(t, signum, kind) == [t |-> t, sig |-> signum, k |-> kind]

print(tok) == buffer' = Append(buffer, tok)

\* (flush without the fsync: nothing more becomes durable)
fsyncNoInt_Skip(written) == synced

\* fsyncNoInt(STDERR_FILENO): all that has been written is covered.
fsyncNoInt(written) == Len(written)

\* gPrinter->flush(); fsyncNoInt(STDERR_FILENO);
flush ==
  /\ out' = out \o buffer
  /\ buffer' = << >>
  /\ synced' = fsyncNoInt(out \o buffer)

(***************************************************************************)
(* Handler invocations.  A frame is one invocation of signalHandler; the   *)
(* top frame of a thread is the one that runs.                             *)
(*   path       "enter" until the claim loop is left, then "won",          *)
(*              "recursive_first" or "recursive_dropped"                   *)
(*   ran        the callbacks this invocation has run, in order            *)
(*   registered handlers_ as it was when run() was entered                 *)
(*   runFrozen  what run() read from installed_                            *)
(*   printed    number of pieces of text this invocation has printed       *)
(*   released   this invocation has stored kInvalidThreadId                *)
(*   restoredTo the disposition callPreviousSignalHandler has set          *)
(***************************************************************************)
NewFrame(signum) ==
  [sig |-> signum, pc |-> "cas", path |-> "enter", i |-> 0, ran |-> << >>,
   registered |-> << >>, runFrozen |-> FALSE, printed |-> 0, released |-> FALSE,
   restoredTo |-> "none", raised |-> FALSE]

Depth(t) == Len(stack[t])
Top(t) == stack[t][Depth(t)]
InHandler(t) == Depth(t) > 0
At(t, pc) == InHandler(t) /\ Top(t).pc = pc
SetTop(t, f) == [stack EXCEPT ![t][Depth(t)] = f]
Goto(t, pc) == SetTop(t, [Top(t) EXCEPT !.pc = pc])
HandledSignals(t) == {stack[t][d].sig : d \in 1..Depth(t)}

(***************************************************************************)
(* Delivery of a signal whose disposition is the crash handler.  The       *)
(* handler is installed without SA_NODEFER and with an empty sa_mask, so a *)
(* signal is blocked on a thread while its own handler runs there: a       *)
(* nested invocation is always for another signal.                         *)
(***************************************************************************)
Fault(t, signum) ==
  /\ Running
  /\ faults < MaxFaults
  /\ disposition[signum] = "CRASH"
  /\ signum \notin HandledSignals(t)
  /\ faults' = faults + 1
  /\ stack' = [stack EXCEPT ![t] = Append(@, NewFrame(signum))]
  /\ UNCHANGED << regVars, fatal, instVars, disposition, origDisp,
                  gSignalThread, gInRecursiveSignalHandler, outVars, terminated >>
  /\ UNCHANGED << mgrVars, cacheVars >>

(***************************************************************************)
(* innerSignalHandler: the claim loop.                                     *)
(***************************************************************************)
\* (a plain store in place of the compare-and-exchange)
ClaimWon_Store(t) ==
  /\ Running
  /\ At(t, "cas")
  /\ gSignalThread' = t
  /\ stack' = SetTop(t, [Top(t) EXCEPT !.pc = "time", !.path = "won"])
  /\ UNCHANGED << regVars, fatal, instVars, disposition, origDisp,
                  gInRecursiveSignalHandler, faults, outVars, terminated >>
  /\ UNCHANGED << mgrVars, cacheVars >>

\* compare_exchange_strong(kInvalidThreadId, myId) succeeds
ClaimWon(t) ==
  /\ Running
  /\ At(t, "cas")
  /\ gSignalThread = kInvalidThreadId
  /\ gSignalThread' = t
  /\ stack' = SetTop(t, [Top(t) EXCEPT !.pc = "time", !.path = "won"])
  /\ UNCHANGED << regVars, fatal, instVars, disposition, origDisp,
                  gInRecursiveSignalHandler, faults, outVars, terminated >>
  /\ UNCHANGED << mgrVars, cacheVars >>

\* (the flag's previous value ignored)
RecursivePath_Always(alreadyRecursed) == "recursive_first"

\* if (!gInRecursiveSignalHandler.exchange(true)) { warning, trace } return;
RecursivePath(alreadyRecursed) ==
  IF ~alreadyRecursed THEN "recursive_first" ELSE "recursive_dropped"

\* the exchange fails and the holder is this thread
ClaimRecursive(t) ==
  /\ Running
  /\ At(t, "cas")
  /\ gSignalThread = t
  /\ gInRecursiveSignalHandler' = TRUE
  /\ LET path == RecursivePath(gInRecursiveSignalHandler) IN
       stack' = SetTop(t, [Top(t) EXCEPT
                  !.pc = IF path = "recursive_first" THEN "recwarn" ELSE "release",
                  !.path = path])
  /\ UNCHANGED << regVars, fatal, instVars, disposition, origDisp,
                  gSignalThread, faults, outVars, terminated >>
  /\ UNCHANGED << mgrVars, cacheVars >>

\* the exchange fails and the holder is another thread: nanosleep(100ms), reset
\* prevSignalThread, try again.  Nothing shared is read or written in between.
ClaimLost(t) ==
  /\ Running
  /\ At(t, "cas")
  /\ gSignalThread \notin {kInvalidThreadId, t}
  /\ UNCHANGED << regVars, fatal, instVars, disposition, origDisp, dumpVars,
                  outVars, terminated >>
  /\ UNCHANGED << mgrVars, cacheVars >>

(***************************************************************************)
(* The dump body and the recursive path.  Each dump function prints into   *)
(* the buffer and flushes on scope exit (SCOPE_EXIT { flush(); }).         *)
(***************************************************************************)
PrintAndFlush(t, pc, kind, next) ==
  /\ Running
  /\ At(t, pc)
  /\ out' = (out \o buffer) \o << Token(t, Top(t).sig, kind) >>
  /\ buffer' = << >>
  /\ synced' = fsyncNoInt((out \o buffer) \o << Token(t, Top(t).sig, kind) >>)
  /\ stack' = SetTop(t, [Top(t) EXCEPT !.pc = next, !.printed = @ + 1])
  /\ UNCHANGED << regVars, fatal, instVars, disposition, origDisp,
                  gSignalThread, gInRecursiveSignalHandler, faults, terminated >>
  /\ UNCHANGED << mgrVars, cacheVars >>

dumpTimeInfo(t) == PrintAndFlush(t, "time", "TIME", "siginfo")

dumpSignalInfo(t) == PrintAndFlush(t, "siginfo", "SIGINFO", "trace")

\* What dumpStackTrace prints: getStackTraceSafe may fail.
TraceKind(symbolize, captured) ==
  IF ~captured THEN "TRACE_ERROR"
  ELSE IF symbolize THEN "TRACE"
  ELSE "SAFE_TRACE"

\* (the dump given up when the stack trace cannot be captured)
AfterTrace_GiveUp(captured) == IF captured THEN "run" ELSE "exitflush"

\* Where innerSignalHandler goes on after dumpStackTrace(true): the function
\* returns nothing, the callbacks are next whatever getStackTraceSafe said.
AfterTrace(captured) == "run"

dumpStackTrace(t) ==
  \E captured \in BOOLEAN :
    PrintAndFlush(t, "trace", TraceKind(TRUE, captured), AfterTrace(captured))

\* print("Entered fatal signal handler recursively. We're in trouble.\n");
RecursiveWarning(t) ==
  /\ Running
  /\ At(t, "recwarn")
  /\ print(Token(t, Top(t).sig, "RECURSIVE_WARNING"))
  /\ stack' = SetTop(t, [Top(t) EXCEPT !.pc = "rectrace", !.printed = @ + 1])
  /\ UNCHANGED << regVars, fatal, instVars, disposition, origDisp,
                  gSignalThread, gInRecursiveSignalHandler, faults, out, synced,
                  terminated >>
  /\ UNCHANGED << mgrVars, cacheVars >>

\* dumpStackTrace(false)
RecursiveTrace(t) ==
  \E captured \in BOOLEAN :
    PrintAndFlush(t, "rectrace", TraceKind(FALSE, captured), "release")

(***************************************************************************)
(* FatalSignalCallbackRegistry::run: no lock; reads installed_, then walks *)
(* handlers_.                                                              *)
(***************************************************************************)
RunSees(frozen) == IF frozen THEN handlers_ ELSE << >>

run(t) ==
  /\ Running
  /\ At(t, "run")
  /\ LET todo == RunSees(installed_) IN
       stack' = SetTop(t, [Top(t) EXCEPT
                  !.registered = handlers_,
                  !.runFrozen = installed_,
                  !.i = 1,
                  !.pc = IF Len(todo) = 0 THEN "release" ELSE "callback"])
  /\ UNCHANGED << regVars, fatal, instVars, disposition, origDisp,
                  gSignalThread, gInRecursiveSignalHandler, faults, outVars,
                  terminated >>
  /\ UNCHANGED << mgrVars, cacheVars >>

\* (the loop skipping every other callback)
NextCallback_Skip(i) == i + 2

NextCallback(i) == i + 1

RunCallback(t) ==
  /\ Running
  /\ At(t, "callback")
  /\ LET f == Top(t) IN
       stack' = SetTop(t, [f EXCEPT
                  !.ran = Append(@, handlers_[f.i]),
                  !.i = NextCallback(f.i),
                  !.pc = IF NextCallback(f.i) > Len(handlers_)
                           THEN "release" ELSE "callback"])
  /\ UNCHANGED << regVars, fatal, instVars, disposition, origDisp,
                  gSignalThread, gInRecursiveSignalHandler, faults, outVars,
                  terminated >>
  /\ UNCHANGED << mgrVars, cacheVars >>

(***************************************************************************)
(* signalHandler after innerSignalHandler has returned (on every path).    *)
(***************************************************************************)
\* (signalHandler returning without the store that frees the slot)
ReleaseClaim_Skip(t) ==
  /\ Running
  /\ At(t, "release")
  /\ stack' = SetTop(t, [Top(t) EXCEPT !.released = TRUE, !.pc = "callprev"])
  /\ UNCHANGED << regVars, fatal, instVars, disposition, origDisp, gSignalThread,
                  gInRecursiveSignalHandler, faults, outVars, terminated >>
  /\ UNCHANGED << mgrVars, cacheVars >>

\* gSignalThread = kInvalidThreadId;
ReleaseClaim(t) ==
  /\ Running
  /\ At(t, "release")
  /\ gSignalThread' = kInvalidThreadId
  /\ stack' = SetTop(t, [Top(t) EXCEPT !.released = TRUE, !.pc = "callprev"])
  /\ UNCHANGED << regVars, fatal, instVars, disposition, origDisp,
                  gInRecursiveSignalHandler, faults, outVars, terminated >>
  /\ UNCHANGED << mgrVars, cacheVars >>

\* (the default disposition for every signal)
PreviousDisposition_Default(signum) == "DFL"

\* The disposition callPreviousSignalHandler(signum) sets before it raises.
PreviousDisposition(signum) ==
  IF IsTableSignal(signum) THEN oldAction[signum] ELSE "DFL"

callPreviousSignalHandler(t) ==
  /\ Running
  /\ At(t, "callprev")
  /\ LET f == Top(t) IN
       /\ disposition' = [disposition EXCEPT ![f.sig] = PreviousDisposition(f.sig)]
       /\ stack' = SetTop(t, [f EXCEPT !.restoredTo = PreviousDisposition(f.sig),
                                       !.raised = TRUE,
                                       !.pc = "exitflush"])
  /\ UNCHANGED << regVars, fatal, instVars, origDisp, gSignalThread,
                  gInRecursiveSignalHandler, faults, outVars, terminated >>
  /\ UNCHANGED << mgrVars, cacheVars >>

\* SCOPE_EXIT { flush(); } of signalHandler
ExitFlush(t) ==
  /\ Running
  /\ At(t, "exitflush")
  /\ flush
  /\ stack' = Goto(t, "return")
  /\ UNCHANGED << regVars, fatal, instVars, disposition, origDisp,
                  gSignalThread, gInRecursiveSignalHandler, faults, terminated >>
  /\ UNCHANGED << mgrVars, cacheVars >>

(***************************************************************************)
(* Return from the handler: the signal raised by callPreviousSignalHandler *)
(* was blocked until now and is delivered with the disposition in effect.  *)
(* The default action of every signal of the table ends the process; an    *)
(* ignored signal is dropped; a handler the program had installed before   *)
(* runs and either ends the process or returns.                            *)
(***************************************************************************)
Pop(t) == [stack EXCEPT ![t] = SubSeq(@, 1, Depth(t) - 1)]

ReturnAndDeliver(t) ==
  /\ Running
  /\ At(t, "return")
  /\ LET signum == Top(t).sig
         d == disposition[signum]
     IN  \/ /\ d = "DFL"
            /\ terminated' = [sig |-> signum, via |-> "DFL"]
            /\ stack' = Pop(t)
         \/ /\ d = "IGN"
            /\ stack' = Pop(t)
            /\ UNCHANGED terminated
         \/ /\ d = "PREV"
            /\ stack' = Pop(t)
            /\ \/ terminated' = [sig |-> signum, via |-> "PREV"]
               \/ UNCHANGED terminated
         \/ /\ d = "CRASH"
            /\ stack' = [stack EXCEPT ![t] = Append(SubSeq(@, 1, Depth(t) - 1),
                                                    NewFrame(signum))]
            /\ UNCHANGED terminated
  /\ UNCHANGED << regVars, fatal, instVars, disposition, origDisp,
                  gSignalThread, gInRecursiveSignalHandler, faults, outVars >>
  /\ UNCHANGED << mgrVars, cacheVars >>

(***************************************************************************)
(* CacheManager and StackCacheEntry.  getStackCache holds lock_ for its    *)
(* whole body; giveBack, called by ~StackCacheEntry, takes no lock.  The   *)
(* counter inUse_ is a plain size_t, so every access of it is a step of    *)
(* its own: a read-modify-write uses either the value its function read    *)
(* first or the value in memory when it writes.  The StackCache a handle   *)
(* owns is mapped by its constructor inside getStackCache and unmapped by  *)
(* its destructor, which runs when the argument of giveBack is destroyed,  *)
(* after the body of giveBack.                                             *)
(***************************************************************************)
kMaxInUse == 100

Workers == 1..NWorkers

MgrRunning == mgrFatal = "none"

\* (the test of getStackCache with <= in place of <)
CanCreate_OffByOne(n) == n <= kMaxInUse

\* if (inUse_ < kMaxInUse)
CanCreate(n) == n < kMaxInUse

\* The value a read-modify-write of inUse_ by worker w starts from.
Operand(w) == {wtmp[w], inUse_}

\* getStackCache: lock_guard, and the read of inUse_ in the test.
getStackCache_Enter(w, maxCalls) ==
  /\ MgrRunning
  /\ wpc[w] = "idle"
  /\ lock_ = 0
  /\ mgrCalls < maxCalls
  /\ regions < kMaxInUse + MaxExcess
  /\ lock_' = w
  /\ wtmp' = [wtmp EXCEPT ![w] = inUse_]
  /\ wpc' = [wpc EXCEPT ![w] = "get"]
  /\ mgrCalls' = mgrCalls + 1
  /\ UNCHANGED << inUse_, entries, regions, wret, mgrFatal >>
  /\ UNCHANGED << sigVars, cacheVars >>

\* getStackCache from the test on: ++inUse_ and make_unique<StackCacheEntry>
\* (whose StackCache maps its region), or nullptr; then the lock is released.
getStackCache_Return(w) ==
  /\ MgrRunning
  /\ wpc[w] = "get"
  /\ IF CanCreate(wtmp[w])
       THEN /\ \E n \in Operand(w) : inUse_' = n + 1
            /\ entries' = entries + 1
            /\ regions' = regions + 1
            /\ wret' = "handle"
       ELSE /\ UNCHANGED << inUse_, entries, regions >>
            /\ wret' = "null"
  /\ lock_' = 0
  /\ wpc' = [wpc EXCEPT ![w] = "idle"]
  /\ UNCHANGED << wtmp, mgrCalls, mgrFatal >>
  /\ UNCHANGED << sigVars, cacheVars >>

\* ~StackCacheEntry calls giveBack, which reads inUse_ for its assert.
StackCacheEntry_Destroy(w, maxCalls) ==
  /\ MgrRunning
  /\ wpc[w] = "idle"
  /\ entries > 0
  /\ mgrCalls < maxCalls
  /\ entries' = entries - 1
  /\ wtmp' = [wtmp EXCEPT ![w] = inUse_]
  /\ IF inUse_ > 0
       THEN /\ wpc' = [wpc EXCEPT ![w] = "giveBack"]
            /\ UNCHANGED mgrFatal
       ELSE /\ mgrFatal' = "assert(inUse_ > 0)"
            /\ UNCHANGED wpc
  /\ mgrCalls' = mgrCalls + 1
  /\ UNCHANGED << inUse_, lock_, regions, wret >>
  /\ UNCHANGED << sigVars, cacheVars >>

\* giveBack: --inUse_.  A decrement of 0 leaves the counter's range: the
\* run ends there, as after the failed assert.
CacheManager_giveBack(w) ==
  /\ MgrRunning
  /\ wpc[w] = "giveBack"
  /\ \E n \in Operand(w) :
       IF n > 0
         THEN /\ inUse_' = n - 1
              /\ wpc' = [wpc EXCEPT ![w] = "unmap"]
              /\ UNCHANGED mgrFatal
         ELSE /\ mgrFatal' = "inUse_ wrapped"
              /\ UNCHANGED << inUse_, wpc >>
  /\ UNCHANGED << lock_, entries, regions, wtmp, wret, mgrCalls >>
  /\ UNCHANGED << sigVars, cacheVars >>

\* ~StackCache: munmap of the region.
StackCache_Destroy(w) ==
  /\ MgrRunning
  /\ wpc[w] = "unmap"
  /\ regions' = regions - 1
  /\ wpc' = [wpc EXCEPT ![w] = "idle"]
  /\ UNCHANGED << inUse_, lock_, entries, wtmp, wret, mgrCalls, mgrFatal >>
  /\ UNCHANGED << sigVars, cacheVars >>

\* The manager with n pools handed out and nobody calling it.
MgrQuiet(n) ==
  /\ inUse_ = n
  /\ lock_ = 0
  /\ entries = n
  /\ regions = n
  /\ wpc = [w \in Workers |-> "idle"]
  /\ wtmp = [w \in Workers |-> 0]
  /\ wret = "none"
  /\ mgrCalls = 0
  /\ mgrFatal = "none"

(***************************************************************************)
(* StackCache.  borrow and giveBack hold the cache's lock_ for their whole *)
(* body, so each call is one step.  Addresses are numbers, nullptr is 0.   *)
(***************************************************************************)
kNumGuarded == 100

\* sysconf(_SC_PAGESIZE)
pagesize == 4096

\* The address mmap returns for the cache's region (page aligned).
MmapAddress == 1048576

\* The stack sizes caches are built for and users ask for.
StackSizes == {4096, 5000, 8192}

\* (allocSize without the guard page)
allocSize_NoGuard(size) == pagesize * ((size + pagesize - 1) \div pagesize)

\* (allocSize rounding the size down to whole pages)
allocSize_Floor(size) == pagesize * (size \div pagesize + 1)

allocSize(size) == pagesize * ((size + pagesize - 1) \div pagesize + 1)

CacheEnd == storage_ + allocSize_ * kNumGuarded

\* (the free list used as a queue: the oldest entry is taken)
TakeIndex_Front(list) == 1

\* freeList_.back()
TakeIndex(list) == Len(list)

\* The constructor: the region is mapped, every slot pushed, lowest first, and
\* the first page of every slot made PROT_NONE.
StackCache_StackCache(stackSize) ==
  /\ allocSize_ = allocSize(stackSize)
  /\ storage_ = MmapAddress
  /\ freeList_ = [i \in 1..kNumGuarded |-> storage_ + allocSize_ * (i - 1)]
  /\ protNone = {storage_ + allocSize_ * i : i \in 0..(kNumGuarded - 1)}

borrow(size) ==
  /\ storage_ # 0
  /\ cacheFatal = "none"
  /\ LET as == allocSize(size) IN
       IF as # allocSize_ \/ freeList_ = << >>
         THEN /\ lastOp' = [op |-> "borrow", ptr |-> 0, ok |-> FALSE]
              /\ UNCHANGED << freeList_, borrowed, cacheFatal >>
         ELSE LET k == TakeIndex(freeList_)
                  p == freeList_[k]
                  limit == p + allocSize_ - size
              IN  /\ freeList_' = [i \in 1..(Len(freeList_) - 1) |->
                                     IF i < k THEN freeList_[i]
                                              ELSE freeList_[i + 1]]
                  /\ IF ndebug \/ limit >= p + pagesize
                       THEN /\ lastOp' = [op |-> "borrow", ptr |-> limit,
                                          ok |-> TRUE]
                            /\ borrowed' = borrowed \cup {limit}
                            /\ UNCHANGED cacheFatal
                       ELSE /\ cacheFatal' = "assert(limit >= p + pagesize())"
                            /\ UNCHANGED << lastOp, borrowed >>
  /\ UNCHANGED << storage_, allocSize_, reqSize, giveBacks, ndebug, protNone >>
  /\ UNCHANGED << sigVars, mgrVars >>

giveBack(limit, size) ==
  /\ storage_ # 0
  /\ cacheFatal = "none"
  /\ giveBacks' = giveBacks + 1
  /\ LET as == allocSize(size)
         p == limit + size - as
     IN  IF p < storage_ \/ p >= CacheEnd
           THEN /\ lastOp' = [op |-> "giveBack", ptr |-> limit, ok |-> FALSE]
                /\ UNCHANGED << freeList_, borrowed, cacheFatal >>
           ELSE IF ~ndebug /\ as # allocSize_
             THEN /\ cacheFatal' = "assert(as == allocSize_)"
                  /\ UNCHANGED << freeList_, borrowed, lastOp >>
             ELSE IF ~ndebug /\ (p - storage_) % allocSize_ # 0
               THEN /\ cacheFatal' = "assert((p - storage_) % allocSize_ == 0)"
                    /\ UNCHANGED << freeList_, borrowed, lastOp >>
               ELSE /\ freeList_' = Append(freeList_, p)
                    /\ borrowed' = borrowed \ {limit}
                    /\ lastOp' = [op |-> "giveBack", ptr |-> limit, ok |-> TRUE]
                    /\ UNCHANGED cacheFatal
  /\ UNCHANGED << storage_, allocSize_, reqSize, ndebug, protNone >>
  /\ UNCHANGED << sigVars, mgrVars >>

\* No thread is inside borrow or giveBack.
UsersIdle ==
  /\ cacheLock_ = 0
  /\ upc = [u \in Users |-> "idle"]
  /\ utmp = [u \in Users |-> 0]
  /\ uheld = [u \in Users |-> {}]

\* A GuardPageAllocator after construction, nothing allocated.
NoAllocator ==
  /\ UsersIdle
  /\ stackCache_ = FALSE
  /\ handles = 0
  /\ held = {}
  /\ fallbackLive = {}
  /\ apc = "idle"
  /\ asize = 0
  /\ alast = [op |-> "none", ptr |-> 0, size |-> 0, src |-> "none"]

\* No cache constructed.
NoCache ==
  /\ storage_ = 0
  /\ allocSize_ = 0
  /\ freeList_ = << >>
  /\ reqSize = 0
  /\ borrowed = {}
  /\ giveBacks = 0
  /\ lastOp = [op |-> "none", ptr |-> 0, ok |-> FALSE]
  /\ cacheFatal = "none"
  /\ ndebug = FALSE
  /\ protNone = {}
  /\ useGuardPages_ = TRUE
  /\ NoAllocator

(***************************************************************************)
(* Setup phase: the registration API and installFatalSignalHandler, called *)
(* in any order by any number of callers, from the state after static      *)
(* initialisation.  kFatalSignals[].oldAction is zero-initialised, which   *)
(* reads as SIG_DFL.                                                       *)
(***************************************************************************)
OrigDispositions == {"DFL", "IGN", "PREV"}

\* Nobody is in add or markInstalled.
RegistryIdle ==
  /\ mutex_ = 0
  /\ regPc = [c \in RegCallers |-> "idle"]
  /\ regCb = [c \in RegCallers |-> "none"]
  /\ atFreeze = (IF installed_ THEN handlers_ ELSE << >>)

NoFaultState ==
  /\ gSignalThread = kInvalidThreadId
  /\ gInRecursiveSignalHandler = FALSE
  /\ stack = [t \in Threads |-> << >>]
  /\ faults = 0
  /\ buffer = << >>
  /\ out = << >>
  /\ synced = 0
  /\ terminated = [sig |-> 0, via |-> "none"]

InitSetup ==
  /\ installed_ = FALSE
  /\ handlers_ = << >>
  /\ fatal = "none"
  /\ gAlreadyInstalled = FALSE
  /\ oldAction = [s \in TableSignals |-> "DFL"]
  /\ saves = [s \in TableSignals |-> 0]
  /\ origDisp \in [AllSignals -> OrigDispositions]
  /\ \A s \in AllSignals \ FaultSignals : origDisp[s] = "DFL"
  /\ disposition = origDisp
  /\ instPc = [c \in Installers |-> "idle"]
  /\ instIdx = [c \in Installers |-> 0]
  /\ installCalls = 0
  /\ RegistryIdle
  /\ NoFaultState
  /\ MgrQuiet(0)
  /\ NoCache

NextSetup ==
  \/ \E cb \in Callbacks : addFatalSignalCallback(cb)
  \/ installFatalSignalCallbacks
  \/ \E c \in Installers : installFatalSignalHandler(c)
  \/ \E c \in Installers : InstallSigaction(c)

SpecSetup == InitSetup /\ [][NextSetup]_vars

(***************************************************************************)
(* Fault handling: threads fault at any time, also while handling a fault, *)
(* from a state the setup phase ends in: the handler installed for all     *)
(* signals of the table, two callbacks registered, the registry frozen or  *)
(* not.                                                                    *)
(***************************************************************************)
MixedDispositions ==
  [s \in AllSignals |->
     IF s = SIGABRT THEN "PREV" ELSE IF s = SIGTERM THEN "IGN" ELSE "DFL"]

InitDump ==
  /\ installed_ \in BOOLEAN
  /\ handlers_ = << "cbA", "cbB" >>
  /\ fatal = "none"
  /\ gAlreadyInstalled = TRUE
  /\ origDisp = MixedDispositions
  /\ oldAction = [s \in TableSignals |-> origDisp[s]]
  /\ saves = [s \in TableSignals |-> 1]
  /\ disposition = [s \in AllSignals |->
                      IF s \in TableSignals THEN "CRASH" ELSE origDisp[s]]
  /\ instPc = [c \in Installers |-> "idle"]
  /\ instIdx = [c \in Installers |-> 0]
  /\ installCalls = 1
  /\ RegistryIdle
  /\ NoFaultState
  /\ MgrQuiet(0)
  /\ NoCache

HandlerStep(t) ==
  \/ ClaimWon(t)
  \/ ClaimRecursive(t)
  \/ ClaimLost(t)
  \/ dumpTimeInfo(t)
  \/ dumpSignalInfo(t)
  \/ dumpStackTrace(t)
  \/ RecursiveWarning(t)
  \/ RecursiveTrace(t)
  \/ run(t)
  \/ RunCallback(t)
  \/ ReleaseClaim(t)
  \/ callPreviousSignalHandler(t)
  \/ ExitFlush(t)
  \/ ReturnAndDeliver(t)

NextDump ==
  \/ \E t \in Threads, signum \in FaultSignals : Fault(t, signum)
  \/ \E t \in Threads : HandlerStep(t)

SpecDump == InitDump /\ [][NextDump]_vars

(***************************************************************************)
(* Properties of the signal handler.                                       *)
(***************************************************************************)
Frames == UNION {{stack[t][d] : d \in 1..Len(stack[t])} : t \in Threads}

\* The steps between winning the claim and the end of the dump.
DumpBodyPcs == {"time", "siginfo", "trace", "run", "callback"}
\* The steps of signalHandler after innerSignalHandler has returned.
AfterDumpPcs == {"release", "callprev", "exitflush", "return"}

ExecutingDumpBody(t) ==
  /\ InHandler(t)
  /\ Top(t).path = "won"
  /\ Top(t).pc \in DumpBodyPcs

Written == out \o buffer
CountKind(s, kind) == Cardinality({i \in 1..Len(s) : s[i].k = kind})
TraceKinds == {"TRACE", "TRACE_ERROR"}

\* Every fault so far raised the same signal.
OneSignalOnly ==
  Cardinality({f.sig : f \in Frames} \cup {Written[i].sig : i \in 1..Len(Written)}) <= 1

\* C1: at most one thread is executing the dump body (its running handler
\* invocation has won the claim and has not finished timestamp, fault
\* description, stack trace and callbacks).
C1_OneThreadInDumpBody ==
  Cardinality({t \in Threads : ExecutingDumpBody(t)}) <= 1

\* C2, as stated: when all threads raise the same signal, the output holds one
\* report body: no second body is started by another thread.
C2_ExactlyOneReportBody ==
  OneSignalOnly =>
    \A i, j \in 1..Len(Written) :
      (Written[i].k = "TIME" /\ Written[j].k = "TIME") => Written[i].t = Written[j].t

\* C2, amended: when all threads raise the same signal, the output starts with
\* one well-formed report body of the thread that won the claim first
\* (timestamp, fault description, stack trace, all of that thread, nothing of
\* another thread in between); a thread that lost the claim may start a body
\* of its own after that.
C2_FirstReportBodyNotInterleaved ==
  OneSignalOnly =>
    /\ Len(Written) >= 1 => Written[1].k = "TIME"
    /\ Len(Written) >= 2 => (Written[2].k = "SIGINFO" /\ Written[2].t = Written[1].t)
    /\ Len(Written) >= 3 => (Written[3].k \in TraceKinds /\ Written[3].t = Written[1].t)

C2_SecondBodyStarted ==
  /\ OneSignalOnly
  /\ Len(out) >= 4
  /\ out[4].k = "TIME"
  /\ out[4].t # out[1].t

\* C3: a handler invocation that won the claim and finished its dump has
\* released the slot before it restores the disposition; it restores the
\* disposition saved at install time (the default one for a signal that is not
\* in the table) before the signal is raised again; the signal raised again is
\* delivered with the disposition the process had before the install, and a
\* process that ends, ends by that disposition.
C3_RestoreSavedThenReraise ==
  /\ \A f \in Frames :
       f.path = "won" =>
         /\ f.pc \in DumpBodyPcs \cup {"release"} =>
              (~f.released /\ f.restoredTo = "none" /\ ~f.raised)
         /\ f.pc = "callprev" => (f.released /\ f.restoredTo = "none" /\ ~f.raised)
         /\ f.pc \in {"exitflush", "return"} =>
              /\ f.released
              /\ f.raised
              /\ f.restoredTo = origDisp[f.sig]
              /\ disposition[f.sig] = origDisp[f.sig]
  /\ terminated.via # "none" => terminated.via = origDisp[terminated.sig]
  /\ \A signum \in AllSignals \ TableSignals : PreviousDisposition(signum) = "DFL"

C3_WinnerAboutToReturn ==
  \E t \in Threads :
    /\ At(t, "return")
    /\ Top(t).path = "won"
    /\ Top(t).restoredTo = "PREV"
    /\ gSignalThread = kInvalidThreadId

\* C4: each signal of the table has its prior disposition saved at most once,
\* the saved value is the disposition the process had before the install, never
\* the crash handler, and the handler is installed for a signal exactly when its
\* prior disposition has been saved; further calls change none of this.
C4_InstallIdempotent ==
  \A s \in TableSignals :
    /\ saves[s] <= 1
    /\ oldAction[s] # "CRASH"
    /\ saves[s] = 1 => oldAction[s] = origDisp[s]
    /\ saves[s] = 1 <=> disposition[s] = "CRASH"
    /\ (gAlreadyInstalled /\ \A c \in Installers : instPc[c] = "idle") => saves[s] = 1

C4_SecondCallReturned ==
  /\ installCalls = 2
  /\ \A c \in Installers : instPc[c] = "idle"
  /\ \A s \in TableSignals : saves[s] = 1 /\ oldAction[s] = origDisp[s]
  /\ origDisp[SIGSEGV] = "PREV"

\* C5: the registry is append-only, then frozen: while it is unfrozen add
\* appends the callback at the end; once frozen, the sequence never changes
\* again and the registry stays frozen, every add ends in the fatal-error state
\* and so does every further installFatalSignalCallbacks.
C5_AppendOnlyThenFrozen ==
  [][ /\ installed_ => (handlers_' = handlers_ /\ installed_')
      /\ \A cb \in Callbacks :
           addFatalSignalCallback(cb) =>
             IF installed_
               THEN fatal' = "add_after_install"
               ELSE handlers_' = Append(handlers_, cb) /\ fatal' = fatal
      /\ (installFatalSignalCallbacks /\ installed_) => fatal' = "markInstalled_twice"
    ]_vars

C5_AddAfterFreezeIsFatal ==
  /\ installed_
  /\ Len(handlers_) = 1
  /\ fatal = "add_after_install"

\* C6, as stated: an invocation that won the claim has, when its dump is over,
\* run every callback that was registered, once each, in registration order.
C6_EveryRegisteredCallbackRuns ==
  \A f \in Frames :
    (f.path = "won" /\ f.pc \in AfterDumpPcs) => f.ran = f.registered

\* C6, amended: if the registry is frozen (installFatalSignalCallbacks has been
\* called) when the dump reaches run(), every registered callback is run once,
\* in registration order, after the stack trace has been written and before
\* this invocation releases the claim; if the registry is not frozen, no
\* callback is run.
C6_CallbacksRunWhenFrozen ==
  \A t \in Threads : \A d \in 1..Len(stack[t]) :
    LET f == stack[t][d] IN
      f.path = "won" =>
        /\ f.pc \in AfterDumpPcs =>
             f.ran = (IF f.runFrozen THEN f.registered ELSE << >>)
        /\ f.pc = "callback" =>
             (f.runFrozen /\ f.ran = SubSeq(f.registered, 1, f.i - 1))
        /\ f.pc \in {"time", "siginfo", "trace", "run"} => f.ran = << >>
        /\ f.ran # << >> =>
             \E i \in 1..Len(out) :
               out[i].t = t /\ out[i].sig = f.sig /\ out[i].k \in TraceKinds
        /\ f.pc \in {"run", "callback"} => ~f.released

C6_AllCallbacksRun ==
  \E f \in Frames :
    /\ f.path = "won"
    /\ f.pc = "release"
    /\ f.runFrozen
    /\ f.ran = << "cbA", "cbB" >>

SigQuiet ==
  /\ installed_ = FALSE
  /\ handlers_ = << >>
  /\ fatal = "none"
  /\ gAlreadyInstalled = FALSE
  /\ origDisp = [s \in AllSignals |-> "DFL"]
  /\ oldAction = [s \in TableSignals |-> "DFL"]
  /\ saves = [s \in TableSignals |-> 0]
  /\ disposition = origDisp
  /\ instPc = [c \in Installers |-> "idle"]
  /\ instIdx = [c \in Installers |-> 0]
  /\ installCalls = 0
  /\ RegistryIdle
  /\ NoFaultState

(***************************************************************************)
(* The manager used by several threads at once, from a state with no pool  *)
(* or with all pools handed out.                                           *)
(***************************************************************************)
StartPools == {0, kMaxInUse}

InitManager ==
  /\ SigQuiet
  /\ NoCache
  /\ \E n \in StartPools : MgrQuiet(n)

NextManager ==
  \/ \E w \in Workers : getStackCache_Enter(w, MaxConcurrentCalls)
  \/ \E w \in Workers : getStackCache_Return(w)
  \/ \E w \in Workers : StackCacheEntry_Destroy(w, MaxConcurrentCalls)
  \/ \E w \in Workers : CacheManager_giveBack(w)
  \/ \E w \in Workers : StackCache_Destroy(w)

SpecManager == InitManager /\ [][NextManager]_vars

(***************************************************************************)
(* The manager used by one thread, from the state after construction.      *)
(***************************************************************************)
SeqWorker == CHOOSE w \in Workers : \A v \in Workers : w <= v

InitManagerSeq ==
  /\ SigQuiet
  /\ NoCache
  /\ MgrQuiet(0)

NextManagerSeq ==
  \/ getStackCache_Enter(SeqWorker, MaxSequentialCalls)
  \/ getStackCache_Return(SeqWorker)
  \/ StackCacheEntry_Destroy(SeqWorker, MaxSequentialCalls)
  \/ CacheManager_giveBack(SeqWorker)
  \/ StackCache_Destroy(SeqWorker)

SpecManagerSeq == InitManagerSeq /\ [][NextManagerSeq]_vars

(***************************************************************************)
(* One StackCache, built for one of the stack sizes and used with one      *)
(* stack size (a fiber manager's stack size is fixed): the user borrows,   *)
(* and gives back any pointer it holds with the size it borrowed it with.  *)
(***************************************************************************)
InitCache ==
  /\ SigQuiet
  /\ MgrQuiet(1)
  /\ \E stackSize \in StackSizes : StackCache_StackCache(stackSize)
  /\ reqSize \in StackSizes
  /\ borrowed = {}
  /\ giveBacks = 0
  /\ lastOp = [op |-> "none", ptr |-> 0, ok |-> FALSE]
  /\ cacheFatal = "none"
  /\ ndebug = FALSE
  /\ useGuardPages_ = TRUE
  /\ NoAllocator

NextCache ==
  \/ borrow(reqSize) /\ UNCHANGED allocVars
  \/ \E limit \in borrowed :
       giveBacks < MaxGiveBacks /\ giveBack(limit, reqSize) /\ UNCHANGED allocVars

SpecCache == InitCache /\ [][NextCache]_vars

(***************************************************************************)
(* Properties of the manager.                                              *)
(***************************************************************************)
NoManagerCall == \A w \in Workers : wpc[w] = "idle"

\* C8: under any interleaving of getStackCache and handle releases, the
\* counter equals the number of outstanding handles whenever no call of the
\* manager is in progress, and the number of pools whose region is mapped
\* never exceeds kMaxInUse.
C8_CounterIsHandlesAndPoolsCapped ==
  /\ NoManagerCall => inUse_ = entries
  /\ regions <= kMaxInUse

\* C9: in a sequential run getStackCache returns a handle exactly when
\* fewer than kMaxInUse handles are outstanding, and null otherwise without
\* changing the counter; a release decrements the counter once and unmaps
\* one region, so that between calls counter, handles and mapped regions
\* agree and one more request succeeds after a release at the cap.
C9_SequentialManager ==
  [][ /\ getStackCache_Return(SeqWorker) =>
           /\ (wret' = "handle") <=> (entries < kMaxInUse)
           /\ wret' = "handle" =>
                /\ inUse_' = inUse_ + 1
                /\ entries' = entries + 1
                /\ regions' = regions + 1
           /\ wret' = "null" => UNCHANGED << inUse_, entries, regions >>
      /\ CacheManager_giveBack(SeqWorker) => inUse_' = inUse_ - 1
      /\ wpc'[SeqWorker] = "idle" =>
           /\ inUse_' = entries'
           /\ regions' = entries'
           /\ inUse_' <= kMaxInUse
      /\ wpc'[SeqWorker] = "giveBack" =>
           /\ inUse_' = entries' + 1
           /\ regions' = entries' + 1
      /\ wpc'[SeqWorker] = "unmap" =>
           /\ inUse_' = entries'
           /\ regions' = entries' + 1
    ]_vars

\* C9 witness: with kMaxInUse handles outstanding a request returned null.
C9_RequestAtCapReturnedNull ==
  /\ wpc[SeqWorker] = "idle"
  /\ wret = "null"
  /\ entries = kMaxInUse
  /\ inUse_ = kMaxInUse

(***************************************************************************)
(* Properties of the StackCache.                                           *)
(***************************************************************************)
SlotOf(ptr) == (ptr - storage_) \div allocSize_

SameClass == allocSize(reqSize) = allocSize_

\* C10: borrows of the cache's size class succeed, each with a slot no
\* pointer held lies in, as long as fewer than kNumGuarded slots are lent
\* out, and return null when all are (so on a fresh cache 100 borrows
\* succeed and the 101st returns null); a borrow that directly follows a
\* successful giveBack returns the pointer given back.
C10_BorrowUntilEmptyAndLifo ==
  [][ (SameClass /\ borrow(reqSize)) =>
        /\ (lastOp'.ptr # 0) <=> (Cardinality(borrowed) < kNumGuarded)
        /\ lastOp'.ptr # 0 =>
             /\ \A q \in borrowed : SlotOf(q) # SlotOf(lastOp'.ptr)
             /\ SlotOf(lastOp'.ptr) \in 0..(kNumGuarded - 1)
             /\ borrowed' = borrowed \cup {lastOp'.ptr}
        /\ (lastOp.op = "giveBack" /\ lastOp.ok) => lastOp'.ptr = lastOp.ptr
    ]_vars

\* C10 witness: all slots were borrowed, one was given back and borrowed
\* again, and the next borrow returned null.
C10_EmptiedAgainAfterGiveBack ==
  /\ SameClass
  /\ giveBacks = 1
  /\ Cardinality(borrowed) = kNumGuarded
  /\ lastOp = [op |-> "borrow", ptr |-> 0, ok |-> FALSE]

(***************************************************************************)
(* One StackCache used as GuardPageAllocator::deallocate uses it: besides  *)
(* the pointers it lent, giveBack is offered regions that come from the    *)
(* fallback allocator.  Such a region lies outside the cache's mapping,    *)
(* anywhere: well below it, well above it, or a malloc header above its    *)
(* end.  The build is one with asserts or one with NDEBUG.                 *)
(***************************************************************************)
ForeignAddresses == {storage_ - 65536, CacheEnd + 16, CacheEnd + 1048576}

InitCacheForeign ==
  /\ SigQuiet
  /\ MgrQuiet(1)
  /\ \E stackSize \in StackSizes : StackCache_StackCache(stackSize)
  /\ reqSize \in StackSizes
  /\ borrowed = {}
  /\ giveBacks = 0
  /\ lastOp = [op |-> "none", ptr |-> 0, ok |-> FALSE]
  /\ cacheFatal = "none"
  /\ ndebug \in BOOLEAN
  /\ useGuardPages_ = TRUE
  /\ NoAllocator

NextCacheForeign ==
  \/ borrow(reqSize) /\ UNCHANGED allocVars
  \/ \E limit \in borrowed :
       giveBacks < MaxGiveBacks /\ giveBack(limit, reqSize) /\ UNCHANGED allocVars
  \/ \E limit \in ForeignAddresses :
       giveBacks < MaxGiveBacks /\ giveBack(limit, reqSize) /\ UNCHANGED allocVars

SpecCacheForeign == InitCacheForeign /\ [][NextCacheForeign]_vars

InMapping(a) == storage_ <= a /\ a < CacheEnd

SlotAligned(a) == (a - storage_) % allocSize_ = 0

\* C11: after any sequence of borrow and giveBack calls the free list and
\* the borrowed slots together are the kNumGuarded slots, and every address in
\* the free list lies in the mapping at a multiple of the slot size from its
\* start.
C11_FreeListIsTheUnborrowedSlots ==
  /\ Len(freeList_) + Cardinality(borrowed) = kNumGuarded
  /\ \A i \in 1..Len(freeList_) :
       InMapping(freeList_[i]) /\ SlotAligned(freeList_[i])

\* The slot a lent region belongs to: its first address and its guard page.
SlotBase(ptr) == storage_ + SlotOf(ptr) * allocSize_

GuardPage(base) == base..(base + pagesize - 1)

\* C12: the usable bytes of every region a successful borrow returned lie
\* inside one slot of the mapping and outside that slot's guard page, and the
\* first page of every slot is PROT_NONE from construction on.
C12_UsableBytesInSlotAboveGuardPage ==
  /\ \A q \in borrowed :
       /\ InMapping(q)
       /\ InMapping(q + reqSize - 1)
       /\ SlotBase(q) + pagesize <= q
       /\ \A b \in {q, q + reqSize - 1} : b \notin GuardPage(SlotBase(q))
       /\ q + reqSize <= SlotBase(q) + allocSize_
       /\ SlotBase(q) \in protNone
  /\ protNone = {storage_ + allocSize_ * i : i \in 0..(kNumGuarded - 1)}

\* C13, as stated: a region returned by borrow starts where the guard page of
\* its slot ends.
C13_ReturnedIsEndOfGuardPage ==
  \A q \in borrowed : InMapping(q) => q = SlotBase(q) + pagesize

\* C13, amended: borrow returns the address it took from the free list plus
\* allocSize_ - size, which is one page above it when size is a whole number
\* of pages and otherwise pagesize - size % pagesize bytes more: the region
\* starts at or above the end of the guard page, less than a page above it.
C13_ReturnedIsAtOrAboveGuardPage ==
  [][ (borrow(reqSize) /\ lastOp'.ok) =>
        LET p == freeList_[Len(freeList_)]
            gap == lastOp'.ptr - (p + pagesize)
        IN  /\ lastOp'.ptr = p + allocSize_ - reqSize
            /\ gap = (pagesize - (reqSize % pagesize)) % pagesize
            /\ (gap = 0) <=> (reqSize % pagesize = 0)
    ]_vars

\* C13 witness: a region of a size that is no whole number of pages has been
\* borrowed, and lies more than a page above the start of its slot.
C13_GapAboveGuardPage ==
  /\ lastOp.op = "borrow"
  /\ lastOp.ok
  /\ reqSize % pagesize # 0
  /\ InMapping(lastOp.ptr)
  /\ lastOp.ptr > SlotBase(lastOp.ptr) + pagesize

\* C14: giveBack(limit, size) returns false and leaves the free list as it is
\* whenever limit + size - allocSize(size) lies outside the mapping or is not at
\* a slot boundary; otherwise it pushes that address and returns true.
C14_GiveBackRejectsWhatIsNotASlot ==
  [][ \A limit \in borrowed \cup ForeignAddresses :
        giveBack(limit, reqSize) =>
          LET p == limit + reqSize - allocSize(reqSize) IN
            IF ~InMapping(p) \/ ~SlotAligned(p)
              THEN /\ lastOp' = [op |-> "giveBack", ptr |-> limit, ok |-> FALSE]
                   /\ freeList_' = freeList_
                   /\ cacheFatal' = "none"
              ELSE /\ lastOp' = [op |-> "giveBack", ptr |-> limit, ok |-> TRUE]
                   /\ freeList_' = Append(freeList_, p)
    ]_vars

----------------------------------------------------------------------------
\* GuardPageAllocator: one allocator, used by one thread, over the process-wide
\* CacheManager whose other pools belong to other allocators.

\* (allocate asking for a pool whether or not it already holds one)
NeedsPool_Always(use, has) == use

\* allocate: if (useGuardPages_ && !stackCache_)
NeedsPool(use, has) == use /\ ~has

\* allocate: if (p != nullptr) return p; otherwise on to the fallback allocator
AfterBorrow(p) == IF p # 0 THEN "idle" ELSE "fallback"

\* Where the fallback allocator can place a region: addresses far from the
\* mapping, and one that starts 16 bytes above the end of the mapping.
FallbackAddresses ==
  {MmapAddress * (2 + k) : k \in 1..MaxHeld}
    \cup (IF storage_ # 0 THEN {CacheEnd + 16} ELSE {})

\* allocate, up to the pool request: the first call of an allocator with guard
\* pages asks the CacheManager for a pool of the class of this call's size.
allocate_Enter(size) ==
  /\ apc = "idle"
  /\ cacheFatal = "none"
  /\ NeedsPool(useGuardPages_, stackCache_) => (MgrRunning /\ lock_ = 0)
  /\ Cardinality(held) < MaxHeld
  /\ asize' = size
  /\ apc' = "borrow"
  /\ IF NeedsPool(useGuardPages_, stackCache_) /\ CanCreate(inUse_)
       THEN /\ inUse_' = inUse_ + 1
            /\ entries' = entries + 1
            /\ regions' = regions + 1
            /\ stackCache_' = TRUE
            /\ handles' = handles + 1
            /\ allocSize_' = allocSize(size)
            /\ storage_' = MmapAddress
            /\ freeList_' = [i \in 1..kNumGuarded |->
                               MmapAddress + allocSize(size) * (i - 1)]
            /\ protNone' = {MmapAddress + allocSize(size) * i :
                              i \in 0..(kNumGuarded - 1)}
            /\ borrowed' = {}
       ELSE UNCHANGED << inUse_, entries, regions, stackCache_, handles,
                         allocSize_, storage_, freeList_, protNone, borrowed >>
  /\ UNCHANGED << lock_, wpc, wtmp, wret, mgrCalls, mgrFatal >>
  /\ UNCHANGED << reqSize, giveBacks, lastOp, cacheFatal, ndebug >>
  /\ UNCHANGED << useGuardPages_, held, fallbackLive, alast >>
  /\ UNCHANGED userVars
  /\ UNCHANGED sigVars

\* allocate, the pool: borrow from the pool the allocator holds, if it holds one.
allocate_Borrow ==
  /\ apc = "borrow"
  /\ IF stackCache_
       THEN /\ borrow(asize)
            /\ IF cacheFatal' # "none"
                 THEN UNCHANGED << apc, held, alast >>
                 ELSE /\ apc' = AfterBorrow(lastOp'.ptr)
                      /\ IF lastOp'.ptr # 0
                           THEN /\ held' = held \cup
                                     {[ptr |-> lastOp'.ptr, size |-> asize,
                                       src |-> "pool"]}
                                /\ alast' = [op |-> "allocate",
                                             ptr |-> lastOp'.ptr,
                                             size |-> asize, src |-> "pool"]
                           ELSE UNCHANGED << held, alast >>
       ELSE /\ apc' = AfterBorrow(0)
            /\ UNCHANGED << held, alast >>
            /\ UNCHANGED << storage_, allocSize_, freeList_, reqSize, borrowed,
                            giveBacks, lastOp, cacheFatal, ndebug, protNone >>
            /\ UNCHANGED << sigVars, mgrVars >>
  /\ UNCHANGED << useGuardPages_, stackCache_, handles, fallbackLive, asize >>
  /\ UNCHANGED userVars

\* allocate, the fallback: return fallbackAllocator_.allocate(size)
allocate_Fallback ==
  /\ apc = "fallback"
  /\ \E a \in FallbackAddresses \ fallbackLive :
       /\ held' = held \cup {[ptr |-> a, size |-> asize, src |-> "fallback"]}
       /\ fallbackLive' = fallbackLive \cup {a}
       /\ alast' = [op |-> "allocate", ptr |-> a, size |-> asize,
                    src |-> "fallback"]
  /\ apc' = "idle"
  /\ UNCHANGED << useGuardPages_, stackCache_, handles, asize >>
  /\ UNCHANGED userVars
  /\ UNCHANGED << storage_, allocSize_, freeList_, reqSize, borrowed,
                  giveBacks, lastOp, cacheFatal, ndebug, protNone >>
  /\ UNCHANGED << sigVars, mgrVars >>

\* deallocate(limit, size) of a region the user holds, with the size it was
\* allocated with: the pool is asked first, the fallback deallocator takes
\* what the pool answers is not its own.
deallocate(r) ==
  /\ apc = "idle"
  /\ cacheFatal = "none"
  /\ r \in held
  /\ IF stackCache_
       THEN /\ giveBacks < MaxDeallocates
            /\ giveBack(r.ptr, r.size)
            /\ IF cacheFatal' # "none"
                 THEN UNCHANGED << held, fallbackLive, alast >>
                 ELSE /\ held' = held \ {r}
                      /\ IF lastOp'.ok
                           THEN /\ UNCHANGED fallbackLive
                                /\ alast' = [op |-> "deallocate",
                                             ptr |-> r.ptr, size |-> r.size,
                                             src |-> "pool"]
                           ELSE /\ fallbackLive' = fallbackLive \ {r.ptr}
                                /\ alast' = [op |-> "deallocate",
                                             ptr |-> r.ptr, size |-> r.size,
                                             src |-> "fallback"]
       ELSE /\ held' = held \ {r}
            /\ fallbackLive' = fallbackLive \ {r.ptr}
            /\ alast' = [op |-> "deallocate", ptr |-> r.ptr, size |-> r.size,
                         src |-> "fallback"]
            /\ UNCHANGED << storage_, allocSize_, freeList_, reqSize, borrowed,
                            giveBacks, lastOp, cacheFatal, ndebug, protNone >>
            /\ UNCHANGED << sigVars, mgrVars >>
  /\ UNCHANGED << useGuardPages_, stackCache_, handles, apc, asize >>
  /\ UNCHANGED userVars

\* Another allocator is destroyed while the manager is at its cap: its
\* StackCacheEntry gives its pool back to the CacheManager.
OtherAllocatorDestroyed ==
  /\ cacheFatal = "none"
  /\ ~stackCache_
  /\ inUse_ = kMaxInUse
  /\ inUse_' = inUse_ - 1
  /\ entries' = entries - 1
  /\ regions' = regions - 1
  /\ UNCHANGED << lock_, wpc, wtmp, wret, mgrCalls, mgrFatal >>
  /\ UNCHANGED << sigVars, cacheVars >>

\* The slots of a pool of class allocSize(stackSize) that are lent out when
\* only the first slot is left: the addresses borrow returned for them.
LentOut(stackSize) ==
  {MmapAddress + allocSize(stackSize) * i + allocSize(stackSize) - stackSize :
     i \in 1..(kNumGuarded - 1)}

\* An allocator after construction, the manager with no pool or at its cap; or
\* an allocator whose pool has one slot left, the others lent to users that
\* keep them.
InitAllocator ==
  /\ SigQuiet
  /\ UsersIdle
  /\ ndebug \in BOOLEAN
  /\ reqSize = 0
  /\ giveBacks = 0
  /\ lastOp = [op |-> "none", ptr |-> 0, ok |-> FALSE]
  /\ cacheFatal = "none"
  /\ held = {}
  /\ fallbackLive = {}
  /\ apc = "idle"
  /\ asize = 0
  /\ alast = [op |-> "none", ptr |-> 0, size |-> 0, src |-> "none"]
  /\ \/ /\ useGuardPages_ \in BOOLEAN
        /\ stackCache_ = FALSE
        /\ handles = 0
        /\ storage_ = 0
        /\ allocSize_ = 0
        /\ freeList_ = << >>
        /\ borrowed = {}
        /\ protNone = {}
        /\ \E n \in {0, kMaxInUse} : MgrQuiet(n)
     \/ /\ useGuardPages_ = TRUE
        /\ stackCache_ = TRUE
        /\ handles = 1
        /\ \E stackSize \in StackSizes :
             /\ storage_ = MmapAddress
             /\ allocSize_ = allocSize(stackSize)
             /\ freeList_ = << MmapAddress >>
             /\ borrowed = LentOut(stackSize)
             /\ protNone = {MmapAddress + allocSize(stackSize) * i :
                              i \in 0..(kNumGuarded - 1)}
        /\ MgrQuiet(1)

NextAllocator ==
  \/ \E size \in StackSizes : allocate_Enter(size)
  \/ allocate_Borrow
  \/ allocate_Fallback
  \/ \E r \in held : deallocate(r)
  \/ OtherAllocatorDestroyed

SpecAllocator == InitAllocator /\ [][NextAllocator]_vars

\* The allocate call in progress finds a slot: the allocator holds a pool of
\* the class of the requested size whose free list is not empty.
PoolCanServe ==
  stackCache_ /\ allocSize(asize) = allocSize_ /\ freeList_ # << >>

\* C15: allocate returns a slot of the pool (an address whose slot base lies
\* in the mapping on a slot boundary) exactly when the allocator holds a pool
\* of the class of the requested size with a non-empty free list, and a region
\* of the fallback allocator otherwise; an exhausted pool, a class mismatch or
\* a manager at its cap never makes the call fail, wait or abort: the next
\* step of the call is always enabled and leads to a return.
C15_AllocateFromPoolElseFallback ==
  /\ [](apc \in {"idle", "borrow", "fallback"})
  /\ [](apc = "borrow" => ENABLED allocate_Borrow)
  /\ [](apc = "fallback" => ENABLED allocate_Fallback)
  /\ [][ /\ (\E size \in StackSizes : allocate_Enter(size)) =>
              /\ apc' = "borrow"
              /\ cacheFatal' = "none" /\ mgrFatal' = "none"
         /\ allocate_Borrow =>
              IF PoolCanServe
                THEN /\ apc' = "idle"
                     /\ alast' = [op |-> "allocate",
                                  ptr |-> freeList_[Len(freeList_)]
                                            + allocSize_ - asize,
                                  size |-> asize, src |-> "pool"]
                     /\ InMapping(freeList_[Len(freeList_)])
                     /\ SlotAligned(freeList_[Len(freeList_)])
                     /\ freeList_' = SubSeq(freeList_, 1, Len(freeList_) - 1)
                     /\ fallbackLive' = fallbackLive
                     /\ cacheFatal' = "none"
                ELSE /\ apc' = "fallback"
                     /\ freeList_' = freeList_
                     /\ held' = held
                     /\ cacheFatal' = "none"
         /\ allocate_Fallback =>
              /\ apc' = "idle"
              /\ alast'.op = "allocate" /\ alast'.src = "fallback"
              /\ alast'.size = asize
              /\ alast'.ptr \in fallbackLive' \ fallbackLive
              /\ freeList_' = freeList_
              /\ cacheFatal' = "none"
    ]_vars

\* C16: a region obtained from allocate and passed to deallocate with the same
\* size goes back to the source that produced it: a slot of the pool is pushed
\* on the free list and the fallback deallocator is not called; a region of
\* the fallback allocator goes to the fallback deallocator and the free list
\* does not change, whatever its address and whether or not the pool existed
\* when it was allocated.
C16_DeallocateReturnsToSource ==
  [][ \A r \in held :
        deallocate(r) =>
          /\ cacheFatal' = "none"
          /\ held' = held \ {r}
          /\ IF r.src = "pool"
               THEN /\ freeList_' = Append(freeList_,
                                      r.ptr + r.size - allocSize(r.size))
                    /\ fallbackLive' = fallbackLive
                    /\ alast'.src = "pool"
               ELSE /\ freeList_' = freeList_
                    /\ fallbackLive' = fallbackLive \ {r.ptr}
                    /\ alast'.src = "fallback"
    ]_vars

\* A step of the allocator itself (the other allocators' steps left out).
AllocatorStep ==
  \/ \E size \in StackSizes : allocate_Enter(size)
  \/ allocate_Borrow
  \/ allocate_Fallback
  \/ \E r \in held : deallocate(r)

\* C17: the allocator obtains at most one pool handle in its lifetime and keeps
\* it; the class and the mapping of its pool are those set by the allocate call
\* that obtained the handle and never change afterwards; an allocator with
\* guard pages disabled never obtains a handle, none of its steps changes the
\* CacheManager's counter, and every region it returns is a fallback region.
C17_OnePoolOfFixedClass ==
  /\ [](handles <= 1 /\ (stackCache_ <=> handles = 1))
  /\ [](~useGuardPages_ =>
          /\ ~stackCache_ /\ handles = 0 /\ storage_ = 0
          /\ \A r \in held : r.src = "fallback")
  /\ [][ /\ stackCache_ =>
              /\ stackCache_'
              /\ allocSize_' = allocSize_
              /\ storage_' = storage_
              /\ (AllocatorStep => inUse_' = inUse_)
         /\ (~stackCache_ /\ stackCache_') =>
              /\ useGuardPages_
              /\ \E size \in StackSizes : allocate_Enter(size)
              /\ allocSize_' = allocSize(asize')
              /\ inUse_' = inUse_ + 1
         /\ (~useGuardPages_ /\ AllocatorStep) =>
              /\ inUse_' = inUse_
              /\ alast'.src \in {"none", "fallback"}
         /\ useGuardPages_' = useGuardPages_
    ]_vars

\* The allocator obtained its pool in a call for one class and, still holding
\* that pool, served a later call of another class from the fallback.
C17_PoolKeptAcrossOtherClass ==
  /\ stackCache_ /\ handles = 1
  /\ inUse_ = 1
  /\ alast.op = "allocate" /\ alast.src = "fallback"
  /\ allocSize(alast.size) # allocSize_
  /\ \E r \in held : r.src = "pool"

----------------------------------------------------------------------------
\* allocSize and the address borrow returns, over sizes around the page
\* boundaries: one StackCache built for the size its user then asks for.

SizeSamples ==
  {pagesize - 1, pagesize, pagesize + 1, 5000, 2 * pagesize}

InitSizes ==
  /\ SigQuiet
  /\ MgrQuiet(1)
  /\ reqSize \in SizeSamples
  /\ StackCache_StackCache(reqSize)
  /\ borrowed = {}
  /\ giveBacks = 0
  /\ lastOp = [op |-> "none", ptr |-> 0, ok |-> FALSE]
  /\ cacheFatal = "none"
  /\ ndebug = FALSE
  /\ useGuardPages_ = TRUE
  /\ NoAllocator

SpecSizes == InitSizes /\ [][NextCache]_vars

\* The least number of units of b bytes that hold a bytes.
CeilDiv(a, b) ==
  CHOOSE q \in 0..(a \div b + 1) : q * b >= a /\ (q = 0 \/ (q - 1) * b < a)

\* C18: allocSize(S) = P * (ceil(S / P) + 1), and a successful borrow(S)
\* returns the base of the slot it pops plus allocSize(S) - S, so that the S
\* usable bytes end exactly where the slot ends; for P = 4096 and S = 8192
\* allocSize is 12288 and borrow returns the slot base plus 4096.
C18_AllocSizeAndBorrowedAddress ==
  /\ [](allocSize(reqSize) = pagesize * (CeilDiv(reqSize, pagesize) + 1))
  /\ [](pagesize = 4096 => allocSize(8192) = 12288)
  /\ [][ (borrow(reqSize) /\ lastOp'.ok) =>
           LET slotBase == freeList_[Len(freeList_)] IN
             /\ InMapping(slotBase) /\ SlotAligned(slotBase)
             /\ lastOp'.ptr = slotBase + allocSize(reqSize) - reqSize
             /\ lastOp'.ptr + reqSize = slotBase + allocSize_
             /\ (pagesize = 4096 /\ reqSize = 8192) =>
                  lastOp'.ptr = slotBase + 4096
    ]_vars

\* borrow(8192) returned the base of a slot of 12288 bytes plus 4096.
C18_Borrow8192Returned ==
  /\ lastOp.op = "borrow" /\ lastOp.ok
  /\ reqSize = 8192
  /\ allocSize_ = 12288
  /\ lastOp.ptr = SlotBase(lastOp.ptr) + 4096

----------------------------------------------------------------------------
\* The order of the report's sections and the flushes.

\* The place of a piece of text in the report of the invocation that won the
\* claim: timestamp line, fault-description line, stack trace (or the error
\* line printed in its place); 0 for the text of the recursive path.
SectionRank(kind) ==
  CASE kind = "TIME" -> 1
    [] kind = "SIGINFO" -> 2
    [] kind \in {"TRACE", "TRACE_ERROR"} -> 3
    [] OTHER -> 0

\* Where the text of thread t's invocation for signum is in the sequence s.
TextOf(t, signum, s) ==
  {i \in 1..Len(s) : s[i].t = t /\ s[i].sig = signum}

\* The positions of a winning invocation at which n sections are complete.
SectionsDoneAt(pc) ==
  CASE pc = "time" -> 0
    [] pc = "siginfo" -> 1
    [] pc = "trace" -> 2
    [] OTHER -> 3

\* C19: an invocation that won the claim writes the timestamp line, then the
\* fault description, then the stack trace, and runs callbacks only after the
\* three; when a section is complete its text has been written out of the
\* buffer and the fsync that follows the write covers it, before the next
\* section starts; and an invocation returns, on whichever path, only through
\* the final flush, which empties the buffer and is followed by the fsync.
C19_SectionsInOrderEachFlushedAndSynced ==
  /\ [](\A t \in Threads : \A d \in 1..Len(stack[t]) :
          LET f == stack[t][d]
              written == TextOf(t, f.sig, out)
          IN  /\ f.path = "won" =>
                   /\ f.printed = SectionsDoneAt(f.pc)
                   /\ {SectionRank(out[i].k) : i \in written} = 1..f.printed
                   /\ Cardinality(written) = f.printed
                   /\ \A i, j \in written :
                        i < j => SectionRank(out[i].k) < SectionRank(out[j].k)
                   /\ \A i \in written : i <= synced
                   /\ TextOf(t, f.sig, buffer) = {}
                   /\ (f.ran # << >> \/ f.pc = "callback") => f.printed = 3
              /\ f.pc = "return" =>
                   /\ TextOf(t, f.sig, buffer) = {}
                   /\ Cardinality(written) = f.printed
                   /\ \A i \in written : i <= synced)
  /\ [][ \A t \in Threads :
           (InHandler(t) /\ Len(stack'[t]) = Len(stack[t])
              /\ Top(t).pc # "return"
              /\ stack'[t][Len(stack[t])].pc = "return") =>
             /\ Top(t).pc = "exitflush"
             /\ Top(t).released /\ Top(t).raised
             /\ out' = out \o buffer
             /\ buffer' = << >>
             /\ synced' = Len(out')
    ]_vars

\* A winning invocation has written its three sections, run the callbacks and
\* made its final flush.
C19_WinnerReturnedAfterFullReport ==
  \E t \in Threads :
    /\ At(t, "return")
    /\ Top(t).path = "won"
    /\ Top(t).printed = 3
    /\ Top(t).ran = handlers_
    /\ Len(handlers_) > 0
    /\ Cardinality(TextOf(t, Top(t).sig, out)) = 3
    /\ synced = Len(out)

\* The invocation of thread t for signum printed the error line in place of
\* its stack trace: getStackTraceSafe failed.
CaptureFailed(t, signum) ==
  \E i \in TextOf(t, signum, out) : out[i].k = "TRACE_ERROR"

\* C20: a stack-trace capture that fails does not end the dump: the error line
\* stands where the trace would (one line, no trace, after the timestamp and
\* the fault description), the process is not aborted, and the invocation goes
\* on as after a successful capture: to run(), which runs the callbacks the
\* registry lets it run, then it releases the claim, restores the saved
\* disposition and raises the signal again.
C20_FailedCaptureDoesNotEndTheDump ==
  /\ [](\A t \in Threads : \A d \in 1..Len(stack[t]) :
          LET f == stack[t][d]
              written == TextOf(t, f.sig, out)
          IN  (f.path = "won" /\ CaptureFailed(t, f.sig)) =>
                /\ {out[i].k : i \in written} = {"TIME", "SIGINFO", "TRACE_ERROR"}
                /\ Cardinality(written) = 3
                /\ f.pc \in AfterDumpPcs \cup {"run", "callback"}
                /\ f.pc \in AfterDumpPcs =>
                     f.ran = (IF f.runFrozen THEN f.registered ELSE << >>)
                /\ f.pc \in {"callprev", "exitflush", "return"} => f.released
                /\ f.pc \in {"exitflush", "return"} =>
                     /\ f.raised
                     /\ f.restoredTo = origDisp[f.sig]
                     /\ disposition[f.sig] = origDisp[f.sig])
  /\ [](fatal = "none")
  /\ [][ \A t \in Threads :
           dumpStackTrace(t) =>
             /\ stack'[t][Len(stack[t])].pc = "run"
             /\ Len(out') = Len(out) + Len(buffer) + 1
             /\ out'[Len(out')].k \in {"TRACE", "TRACE_ERROR"}
             /\ terminated' = terminated
             /\ gSignalThread' = gSignalThread
    ]_vars

\* An invocation whose capture failed has run both callbacks, released the
\* claim, restored the saved disposition, raised the signal and is about to
\* return.
C20_FailedCaptureWinnerReturns ==
  \E t \in Threads :
    /\ At(t, "return")
    /\ Top(t).path = "won"
    /\ CaptureFailed(t, Top(t).sig)
    /\ Top(t).ran = << "cbA", "cbB" >>
    /\ Top(t).released /\ Top(t).raised
    /\ Top(t).restoredTo = origDisp[Top(t).sig]

----------------------------------------------------------------------------
\* The thread that waits for the claim, under fair scheduling.

NextWait ==
  \/ \E t \in Threads, signum \in FaultSignals :
       faults < MaxWaitFaults /\ Fault(t, signum)
  \/ \E t \in Threads : HandlerStep(t)

\* Every thread that can take a step of its handler eventually takes one: a
\* thread in the claim loop wakes from its nanosleep and tries the exchange
\* again, the holder's dump body runs to its end.
FairWait == \A t \in Threads : WF_vars(HandlerStep(t))

SpecWait == InitDump /\ [][NextWait]_vars /\ FairWait

\* Thread t is in the claim loop and the slot holds another thread.
Waiting(t) ==
  At(t, "cas") /\ gSignalThread \notin {kInvalidThreadId, t}

\* The invocation of t that is in the claim loop has done nothing visible.
NothingVisible(t) ==
  /\ Top(t).printed = 0
  /\ Top(t).ran = << >>
  /\ ~Top(t).released
  /\ Top(t).restoredTo = "none"
  /\ ~Top(t).raised
  /\ TextOf(t, Top(t).sig, out) = {}
  /\ TextOf(t, Top(t).sig, buffer) = {}

\* C21, as stated: a thread that waits for the claim does nothing visible
\* while it waits and eventually has raised its signal again.
C21_WaiterEventuallyReraises ==
  /\ [](\A t \in Threads : At(t, "cas") => NothingVisible(t))
  /\ \A t \in Threads :
       Waiting(t) ~> (InHandler(t) /\ Top(t).path = "won" /\ Top(t).raised)

\* C21, amended: a thread that waits for the claim does nothing visible while
\* it waits; its invocation leaves the claim loop only by winning the claim;
\* and it eventually wins the claim and goes on to raise its signal again,
\* unless the process is ended first (by the signal another invocation raised
\* again).
C21_WaiterWinsUnlessProcessEnds ==
  /\ [](\A t \in Threads : At(t, "cas") => NothingVisible(t))
  /\ [][ \A t \in Threads :
           (Waiting(t) /\ stack'[t] # stack[t]) =>
             \/ Len(stack'[t]) = Len(stack[t]) + 1
             \/ /\ gSignalThread = kInvalidThreadId \/ gSignalThread' = t
    ]_vars
  /\ \A t \in Threads :
       Waiting(t) ~>
         (\/ terminated.via # "none"
          \/ InHandler(t) /\ Top(t).path = "won" /\ Top(t).pc # "cas")
  /\ \A t \in Threads :
       (InHandler(t) /\ Top(t).path = "won") ~>
         (\/ terminated.via # "none"
          \/ InHandler(t) /\ Top(t).path = "won" /\ Top(t).raised)

\* A thread waits in the claim loop, nothing visible done, while the holder
\* of the claim is running its callbacks.
C21_WaitsWhileHolderDumps ==
  \E t, h \in Threads :
    /\ Waiting(t)
    /\ NothingVisible(t)
    /\ gSignalThread = h
    /\ InHandler(h) /\ Top(h).path = "won" /\ Top(h).pc = "callback"
    /\ terminated.via = "none"

\* C22: the slot goes back to "no thread" only in a step of the thread it
\* holds, taken by the invocation that won the claim after its dump body is
\* over; an invocation on the recursive path leaves the slot as it is.
C22_OnlyTheHolderResetsAfterItsDump ==
  [][ /\ (gSignalThread # kInvalidThreadId
            /\ gSignalThread' = kInvalidThreadId) =>
           /\ ReleaseClaim(gSignalThread)
           /\ Top(gSignalThread).path = "won"
           /\ \A d \in 1..Depth(gSignalThread) :
                stack[gSignalThread][d].pc \notin DumpBodyPcs
      /\ \A t \in Threads :
           (ReleaseClaim(t) /\ Top(t).path # "won") =>
             gSignalThread' = gSignalThread
      /\ \A t \in Threads :
           (ReleaseClaim(t) /\ gSignalThread # t) =>
             gSignalThread' = gSignalThread
    ]_vars

----------------------------------------------------------------------------
\* The registry under concurrent use: add and markInstalled step by step
\* (lock, test, change, unlock) on several threads, while a handler invocation
\* reaches run(), which takes no lock.

\* (add and markInstalled entering without the mutex)
MutexFree_NoLock(m) == TRUE

\* std::lock_guard<std::mutex> lock(mutex_) can be taken.
MutexFree(m) == m = 0

RegFrame ==
  UNCHANGED << fatal, instVars, disposition, origDisp, dumpVars, outVars,
               terminated >>
    /\ UNCHANGED << mgrVars, cacheVars >>

\* add: the lock is taken.
add_Lock(c, cb) ==
  /\ Running
  /\ regPc[c] = "idle"
  /\ MutexFree(mutex_)
  /\ installed_ \/ Len(handlers_) < MaxCallbacks
  /\ mutex_' = c
  /\ regPc' = [regPc EXCEPT ![c] = "add_check"]
  /\ regCb' = [regCb EXCEPT ![c] = cb]
  /\ UNCHANGED << installed_, handlers_, atFreeze >>
  /\ RegFrame

\* add: CHECK(!installed_), then push_back begins.
add_Check(c) ==
  /\ Running
  /\ regPc[c] = "add_check"
  /\ IF installed_
       THEN /\ fatal' = "add_after_install"
            /\ UNCHANGED regPc
       ELSE /\ regPc' = [regPc EXCEPT ![c] = "pushing"]
            /\ UNCHANGED fatal
  /\ UNCHANGED << installed_, handlers_, mutex_, regCb, atFreeze >>
  /\ UNCHANGED << instVars, disposition, origDisp, dumpVars, outVars,
                  terminated >>
  /\ UNCHANGED << mgrVars, cacheVars >>

\* add: push_back is complete, the lock is released.
add_Push(c) ==
  /\ Running
  /\ regPc[c] = "pushing"
  /\ handlers_' = Append(handlers_, regCb[c])
  /\ mutex_' = (IF mutex_ = c THEN 0 ELSE mutex_)
  /\ regPc' = [regPc EXCEPT ![c] = "idle"]
  /\ UNCHANGED << installed_, regCb, atFreeze >>
  /\ RegFrame

\* markInstalled: the lock is taken.
markInstalled_Lock(c) ==
  /\ Running
  /\ regPc[c] = "idle"
  /\ MutexFree(mutex_)
  /\ mutex_' = c
  /\ regPc' = [regPc EXCEPT ![c] = "mark"]
  /\ UNCHANGED << installed_, handlers_, regCb, atFreeze >>
  /\ RegFrame

\* markInstalled: CHECK(!installed_.exchange(true)), the lock is released.
markInstalled_Exchange(c) ==
  /\ Running
  /\ regPc[c] = "mark"
  /\ installed_' = TRUE
  /\ IF installed_
       THEN /\ fatal' = "markInstalled_twice"
            /\ UNCHANGED << mutex_, regPc, atFreeze >>
       ELSE /\ atFreeze' = handlers_
            /\ mutex_' = (IF mutex_ = c THEN 0 ELSE mutex_)
            /\ regPc' = [regPc EXCEPT ![c] = "idle"]
            /\ UNCHANGED fatal
  /\ UNCHANGED << handlers_, regCb >>
  /\ UNCHANGED << instVars, disposition, origDisp, dumpVars, outVars,
                  terminated >>
  /\ UNCHANGED << mgrVars, cacheVars >>

\* An add is in the middle of push_back.
Modifying == \E c \in RegCallers : regPc[c] = "pushing"

\* The handler is installed, the registry is empty and not frozen.
InitRegistry ==
  /\ installed_ = FALSE
  /\ handlers_ = << >>
  /\ fatal = "none"
  /\ gAlreadyInstalled = TRUE
  /\ origDisp = MixedDispositions
  /\ oldAction = [s \in TableSignals |-> origDisp[s]]
  /\ saves = [s \in TableSignals |-> 1]
  /\ disposition = [s \in AllSignals |->
                      IF s \in TableSignals THEN "CRASH" ELSE origDisp[s]]
  /\ instPc = [c \in Installers |-> "idle"]
  /\ instIdx = [c \in Installers |-> 0]
  /\ installCalls = 1
  /\ RegistryIdle
  /\ NoFaultState
  /\ MgrQuiet(0)
  /\ NoCache

NextRegistry ==
  \/ \E c \in RegCallers, cb \in Callbacks : add_Lock(c, cb)
  \/ \E c \in RegCallers : add_Check(c)
  \/ \E c \in RegCallers : add_Push(c)
  \/ \E c \in RegCallers : markInstalled_Lock(c)
  \/ \E c \in RegCallers : markInstalled_Exchange(c)
  \/ \E t \in Threads, signum \in FaultSignals :
       faults < MaxRegFaults /\ Fault(t, signum)
  \/ \E t \in Threads : ClaimWon(t)
  \/ \E t \in Threads : dumpTimeInfo(t)
  \/ \E t \in Threads : dumpSignalInfo(t)
  \/ \E t \in Threads : dumpStackTrace(t)
  \/ \E t \in Threads : run(t)
  \/ \E t \in Threads : RunCallback(t)
  \/ \E t \in Threads : ReleaseClaim(t)
  \/ \E t \in Threads : callPreviousSignalHandler(t)
  \/ \E t \in Threads : ExitFlush(t)
  \/ \E t \in Threads : ReturnAndDeliver(t)

SpecRegistry == InitRegistry /\ [][NextRegistry]_vars

\* C23: run reads handlers_ only when no add is in the middle of push_back;
\* once the registry is frozen the sequence is what it was at the freeze and
\* no add changes it; a run that read installed_ before the freeze runs no
\* callback, a run that read it after the freeze runs exactly the sequence as
\* it was at the freeze.
C23_RunNeverRacesWithAdd ==
  /\ [](installed_ => (handlers_ = atFreeze /\ ~Modifying))
  /\ [](\A f \in Frames :
          /\ (f.pc \in AfterDumpPcs /\ f.path = "won") =>
               f.ran = (IF f.runFrozen THEN atFreeze ELSE << >>)
          /\ f.pc = "callback" =>
               (f.runFrozen /\ f.registered = atFreeze
                  /\ f.ran = SubSeq(atFreeze, 1, f.i - 1))
          /\ (~f.runFrozen \/ f.pc \in {"cas", "time", "siginfo", "trace",
                                       "run"}) => f.ran = << >>)
  /\ [][ \A t \in Threads :
           /\ (run(t) /\ installed_) => ~Modifying
           /\ RunCallback(t) => (~Modifying /\ handlers_ = atFreeze)
    ]_vars

\* A handler invocation passed run() before the freeze and ran no callback;
\* the registry has been frozen since, with two callbacks.
C23_RunBeforeFreezeRanNothing ==
  \E f \in Frames :
    /\ f.path = "won" /\ f.pc \in AfterDumpPcs
    /\ ~f.runFrozen
    /\ f.ran = << >>
    /\ installed_
    /\ Len(atFreeze) = 2

\* C24: when a call of installFatalSignalHandler returns (at once, because
\* gAlreadyInstalled was set, or after the last sigaction of its loop), the
\* crash handler is the disposition of every signal of the table and the
\* prior disposition of each is saved, whatever the other callers are doing.
C24_InstalledWhenAnyCallReturns ==
  [][ \A c \in Installers :
        (\/ installFatalSignalHandler(c) /\ instPc'[c] = "idle"
         \/ InstallSigaction(c) /\ instPc'[c] = "idle") =>
          \A s \in TableSignals :
            /\ disposition'[s] = "CRASH"
            /\ saves'[s] = 1
            /\ oldAction'[s] = origDisp[s]
    ]_vars

----------------------------------------------------------------------------
\* One StackCache used by several threads at once: borrow and giveBack step
\* by step (lock, read, change and unlock).  Every pointer a thread gives
\* back is one it borrowed and still holds, given back with the size it was
\* borrowed with.

\* (borrow and giveBack entering without the spin lock)
LockFree_NoLock(l) == TRUE

\* std::lock_guard<folly::SpinLock> lg(lock_) can be taken.
LockFree(l) == l = 0

UserFrame ==
  UNCHANGED << storage_, allocSize_, reqSize, borrowed, giveBacks, lastOp,
               ndebug, protNone, useGuardPages_, stackCache_, handles, held,
               fallbackLive, apc, asize, alast >>
    /\ UNCHANGED << sigVars, mgrVars >>

\* borrow: the lock is taken.
borrow_Lock(u) ==
  /\ cacheFatal = "none"
  /\ upc[u] = "idle"
  /\ Cardinality(uheld[u]) < MaxUserHeld
  /\ LockFree(cacheLock_)
  /\ cacheLock_' = u
  /\ upc' = [upc EXCEPT ![u] = "borrow_back"]
  /\ UNCHANGED << freeList_, cacheFatal, utmp, uheld >>
  /\ UserFrame

\* borrow: the class and the free list are tested, p = freeList_.back().
borrow_Back(u) ==
  /\ cacheFatal = "none"
  /\ upc[u] = "borrow_back"
  /\ IF allocSize(reqSize) # allocSize_ \/ freeList_ = << >>
       THEN /\ upc' = [upc EXCEPT ![u] = "idle"]
            /\ cacheLock_' = (IF cacheLock_ = u THEN 0 ELSE cacheLock_)
            /\ UNCHANGED utmp
       ELSE /\ utmp' = [utmp EXCEPT ![u] = freeList_[Len(freeList_)]]
            /\ upc' = [upc EXCEPT ![u] = "borrow_pop"]
            /\ UNCHANGED cacheLock_
  /\ UNCHANGED << freeList_, cacheFatal, uheld >>
  /\ UserFrame

\* borrow: freeList_.pop_back(), limit = p + allocSize_ - size is returned.
borrow_Pop(u) ==
  /\ cacheFatal = "none"
  /\ upc[u] = "borrow_pop"
  /\ IF freeList_ = << >>
       THEN /\ cacheFatal' = "pop_back on an empty vector"
            /\ UNCHANGED << freeList_, uheld, upc, cacheLock_ >>
       ELSE /\ freeList_' = SubSeq(freeList_, 1, Len(freeList_) - 1)
            /\ uheld' = [uheld EXCEPT
                           ![u] = @ \cup {utmp[u] + allocSize_ - reqSize}]
            /\ upc' = [upc EXCEPT ![u] = "idle"]
            /\ cacheLock_' = (IF cacheLock_ = u THEN 0 ELSE cacheLock_)
            /\ UNCHANGED cacheFatal
  /\ UNCHANGED utmp
  /\ UserFrame

\* giveBack of a pointer the thread holds: the lock is taken.
giveBack_Lock(u, limit) ==
  /\ cacheFatal = "none"
  /\ upc[u] = "idle"
  /\ limit \in uheld[u]
  /\ LockFree(cacheLock_)
  /\ cacheLock_' = u
  /\ uheld' = [uheld EXCEPT ![u] = @ \ {limit}]
  /\ utmp' = [utmp EXCEPT ![u] = limit]
  /\ upc' = [upc EXCEPT ![u] = "give_push"]
  /\ UNCHANGED << freeList_, cacheFatal >>
  /\ UserFrame

\* giveBack: the ownership test, the asserts, freeList_.push_back(p).
giveBack_Push(u) ==
  /\ cacheFatal = "none"
  /\ upc[u] = "give_push"
  /\ LET as == allocSize(reqSize)
         p == utmp[u] + reqSize - as
     IN  IF p < storage_ \/ p >= CacheEnd
           THEN UNCHANGED << freeList_, cacheFatal >>
           ELSE IF ~ndebug /\ as # allocSize_
             THEN /\ cacheFatal' = "assert(as == allocSize_)"
                  /\ UNCHANGED freeList_
             ELSE IF ~ndebug /\ (p - storage_) % allocSize_ # 0
               THEN /\ cacheFatal' = "assert((p - storage_) % allocSize_ == 0)"
                    /\ UNCHANGED freeList_
               ELSE /\ freeList_' = Append(freeList_, p)
                    /\ UNCHANGED cacheFatal
  /\ upc' = [upc EXCEPT ![u] = "idle"]
  /\ cacheLock_' = (IF cacheLock_ = u THEN 0 ELSE cacheLock_)
  /\ UNCHANGED << utmp, uheld >>
  /\ UserFrame

NextUsers ==
  \/ \E u \in Users : borrow_Lock(u)
  \/ \E u \in Users : borrow_Back(u)
  \/ \E u \in Users : borrow_Pop(u)
  \/ \E u \in Users : \E limit \in uheld[u] : giveBack_Lock(u, limit)
  \/ \E u \in Users : giveBack_Push(u)

SpecUsers == InitCacheForeign /\ [][NextUsers]_vars

\* The slot a thread is about to return to the free list, if any.
InFlight(u) ==
  IF upc[u] = "give_push" THEN {utmp[u] + reqSize - allocSize_} ELSE {}

\* The slots lent to thread u: the bases of the slots of the pointers it holds.
LentTo(u) == {limit + reqSize - allocSize_ : limit \in uheld[u]}

\* C25: with every borrowed pointer given back at most once and with its own
\* size, whatever the interleaving of the threads' borrow and giveBack calls:
\* no slot is lent to two threads at once, no slot is both lent and free, the
\* free list holds no address twice, and no slot is lost.
C25_NoSlotLentTwiceNoDuplicateFree ==
  /\ \A u, v \in Users : u # v => uheld[u] \cap uheld[v] = {}
  /\ Cardinality({freeList_[i] : i \in 1..Len(freeList_)}) = Len(freeList_)
  /\ \A u \in Users : \A a \in LentTo(u) \cup InFlight(u) :
       \A i \in 1..Len(freeList_) : freeList_[i] # a
  /\ \A u \in Users : Cardinality(LentTo(u)) = Cardinality(uheld[u])
  /\ Len(freeList_)
       + Cardinality(UNION {LentTo(u) \cup InFlight(u) : u \in Users})
       = kNumGuarded
  /\ cacheFatal = "none"

\* Slots have come back to the free list in another order than they were lent
\* in; one thread is in the middle of a borrow while the other, which holds a
\* slot, waits for the lock.
C25_BorrowInProgressAfterReorder ==
  /\ \E i \in 1..(Len(freeList_) - 1) : freeList_[i] > freeList_[i + 1]
  /\ \E u, v \in Users :
       /\ u # v
       /\ upc[u] = "borrow_pop" /\ cacheLock_ = u
       /\ upc[v] = "idle" /\ uheld[v] # {}

----------------------------------------------------------------------------
\* One allocator with guard pages next to the other users of the CacheManager,
\* which request and release pools on their own threads while the manager is
\* at its cap.

InitShared ==
  /\ SigQuiet
  /\ ndebug = FALSE
  /\ reqSize = 0
  /\ giveBacks = 0
  /\ lastOp = [op |-> "none", ptr |-> 0, ok |-> FALSE]
  /\ cacheFatal = "none"
  /\ storage_ = 0
  /\ allocSize_ = 0
  /\ freeList_ = << >>
  /\ borrowed = {}
  /\ protNone = {}
  /\ useGuardPages_ = TRUE
  /\ NoAllocator
  /\ MgrQuiet(kMaxInUse)

NextShared ==
  \/ \E size \in StackSizes : allocate_Enter(size)
  \/ allocate_Borrow
  \/ allocate_Fallback
  \/ \E r \in held : deallocate(r)
  \/ \E w \in Workers : getStackCache_Enter(w, MaxSharedCalls)
  \/ \E w \in Workers : getStackCache_Return(w)
  \/ \E w \in Workers : StackCacheEntry_Destroy(w, MaxSharedCalls)
  \/ \E w \in Workers : CacheManager_giveBack(w)
  \/ \E w \in Workers : StackCache_Destroy(w)

SpecShared == InitShared /\ [][NextShared]_vars

\* C26: an allocator with guard pages that holds no pool asks the manager in
\* every allocate call; when fewer pools than the cap are handed out and no
\* other call of the manager is in progress, the call obtains a pool, of the
\* class of the requested size; a call that is refused leaves the allocator
\* without a pool and the counter unchanged, and is served by the fallback.
C26_PoolRequestedAgainAndObtained ==
  [][ \A size \in StackSizes :
        (allocate_Enter(size) /\ useGuardPages_ /\ ~stackCache_) =>
          /\ (entries < kMaxInUse /\ \A w \in Workers : wpc[w] = "idle") =>
               /\ stackCache_'
               /\ handles' = handles + 1
               /\ allocSize_' = allocSize(size)
               /\ entries' = entries + 1
          /\ ~stackCache_' =>
               /\ inUse_' = inUse_
               /\ entries' = entries
               /\ apc' = "borrow"
    ]_vars

============================================================================
